---- MODULE Spec2Model ----
(***************************************************************************)
(* The Game of Hog (src/hog.py): the turn functions roll_dice, take_turn   *)
(* and select_dice, the game loop play, and the experiment                 *)
(* max_scoring_num_rolls.                                                  *)
(*                                                                         *)
(* Three specifications share the variables:                               *)
(*   Spec / FairSpec  one call of play(strategy0, strategy1, goal);        *)
(*   TurnSpec         one call of roll_dice or take_turn on drawn inputs;  *)
(*   MaxSpec          one call of max_scoring_num_rolls(dice).             *)
(***************************************************************************)
EXTENDS Integers, Sequences, FiniteSets, TLC

\* ------------------------------------------------------------------ bounds

\* play's goal parameter is drawn from 1..MaxGoal (its default is GOAL_SCORE)
MaxGoal == 11
\* the roll counts a strategy of play answers are drawn from 0..MaxRolls
MaxRolls == 2
\* the dice of play answer outcomes in 1..MaxPlayOutcome
MaxPlayOutcome == 2
\* a test dice source answers outcomes in 1..MaxOutcome
MaxOutcome == 5
\* a test dice source repeats a sequence of at most MaxCycle outcomes
MaxCycle == 3
\* make_averaged's num_samples (1000 in max_scoring_num_rolls), scaled down
NumSamples == 2

\* ------------------------------------------------------- program constants

GOAL_SCORE == 100
BASELINE_NUM_ROLLS == 5
BACON_MARGIN == 8
\* the largest roll count take_turn accepts and max_scoring_num_rolls tries
MAX_NUM_ROLLS == 10

four_sided == "four_sided"
six_sided == "six_sided"
test_dice == "test_dice"

max(a, b) == IF a >= b THEN a ELSE b

\* ------------------------------------------------------------ dice source

\* A dice source is a zero-argument function with hidden state.  It is
\* modelled as the sequence of outcomes it repeats and the number of calls
\* made to it so far; any finite run of outcomes >= 1 is a prefix of one.
DiceCycles == UNION {[1..n -> 1..MaxOutcome] : n \in 1..MaxCycle}

\* The outcomes the dice of play answer to the n calls of one turn: every
\* sequence of n outcomes (a turn of no roll never calls its dice).
TurnOutcomes(n) ==
    IF n = 0 THEN {<<1>>} ELSE [1..n -> 1..MaxPlayOutcome]

make_dice(kind, seq) == [kind |-> kind, seq |-> seq, calls |-> 0]

\* outcome = dice(): the value answered by the next call
dice_outcome(dice) == dice.seq[(dice.calls % Len(dice.seq)) + 1]

\* the dice source after that call
dice_called(dice) == [dice EXCEPT !.calls = @ + 1]

\* ------------------------------------------------------- taking turns

\* a failed assert statement: no value is returned
AssertionError(dice) == [ok |-> FALSE, ret |-> -1, dice |-> dice]

Return(v, dice) == [ok |-> TRUE, ret |-> v, dice |-> dice]

\* the while loop of roll_dice left on the first 1 (a plausible slip)
RECURSIVE roll_loop_early_exit(_, _, _, _)
roll_loop_early_exit(num_rolls, total, pig_out, dice) ==
    IF num_rolls > 0 /\ ~pig_out
    THEN LET outcome == dice_outcome(dice)
         IN  roll_loop_early_exit(num_rolls - 1, total + outcome,
                                  pig_out \/ outcome = 1, dice_called(dice))
    ELSE Return(IF pig_out THEN 1 ELSE total, dice)

\* the while loop of roll_dice with the pig-out flag dropped
RECURSIVE roll_loop_no_pig_out(_, _, _, _)
roll_loop_no_pig_out(num_rolls, total, pig_out, dice) ==
    IF num_rolls > 0
    THEN LET outcome == dice_outcome(dice)
         IN  roll_loop_no_pig_out(num_rolls - 1, total + outcome,
                                  pig_out, dice_called(dice))
    ELSE Return(IF pig_out THEN 1 ELSE total, dice)

\* roll_dice, lines 27-33: the while loop and the return
RECURSIVE roll_loop(_, _, _, _)
roll_loop(num_rolls, total, pig_out, dice) ==
    IF num_rolls > 0
    THEN LET outcome == dice_outcome(dice)
         IN  roll_loop(num_rolls - 1, total + outcome,
                       pig_out \/ outcome = 1, dice_called(dice))
    ELSE Return(IF pig_out THEN 1 ELSE total, dice)

roll_dice(num_rolls, dice) ==
    IF ~(num_rolls \in Int) THEN AssertionError(dice)
    ELSE IF ~(num_rolls > 0) THEN AssertionError(dice)
    ELSE roll_loop(num_rolls, 0, FALSE, dice)

\* take_turn without the "1 +" of free bacon
take_turn_no_floor(num_rolls, opponent_score, dice) ==
    IF ~(num_rolls \in Int) THEN AssertionError(dice)
    ELSE IF ~(num_rolls >= 0) THEN AssertionError(dice)
    ELSE IF ~(num_rolls <= 10) THEN AssertionError(dice)
    ELSE IF ~(opponent_score < 100) THEN AssertionError(dice)
    ELSE IF num_rolls = 0
    THEN Return(max(opponent_score \div 10, opponent_score % 10), dice)
    ELSE roll_dice(num_rolls, dice)

\* take_turn with an out-of-range roll count clamped into [0, 10]
take_turn_clamped(num_rolls, opponent_score, dice) ==
    IF ~(num_rolls \in Int) THEN AssertionError(dice)
    ELSE IF ~(opponent_score < 100) THEN AssertionError(dice)
    ELSE IF num_rolls <= 0
    THEN Return(1 + max(opponent_score \div 10, opponent_score % 10), dice)
    ELSE roll_dice(IF num_rolls <= 10 THEN num_rolls ELSE 10, dice)

take_turn(num_rolls, opponent_score, dice) ==
    IF ~(num_rolls \in Int) THEN AssertionError(dice)
    ELSE IF ~(num_rolls >= 0) THEN AssertionError(dice)
    ELSE IF ~(num_rolls <= 10) THEN AssertionError(dice)
    ELSE IF ~(opponent_score < 100) THEN AssertionError(dice)
    ELSE IF num_rolls = 0
    THEN Return(1 + max(opponent_score \div 10, opponent_score % 10), dice)
    ELSE roll_dice(num_rolls, dice)

\* Python objects a caller can pass as num_rolls: the type and, as an
\* integer, the number the object stands for (2.0 is py_float(2), True is
\* py_bool(1)).
py_int(n) == [type |-> "int", value |-> n]
py_float(n) == [type |-> "float", value |-> n]
py_bool(n) == [type |-> "bool", value |-> n]

\* take_turn called with an object: line 43 tests the type of num_rolls,
\* the other lines work on its number
take_turn_object(num_rolls, opponent_score, dice) ==
    IF ~(num_rolls.type = "int") THEN AssertionError(dice)
    ELSE take_turn(num_rolls.value, opponent_score, dice)

\* ------------------------------------------------------- playing a game

\* select_dice with the rule applied to the mover's score alone
select_dice_own_score(score, opponent_score) ==
    IF score % 7 = 0 THEN four_sided ELSE six_sided

select_dice(score, opponent_score) ==
    IF (score + opponent_score) % 7 = 0 THEN four_sided ELSE six_sided

other(who) == 1 - who

\* the loop test of play with only the next mover's score tested
in_progress_own_score(score, opponent_score, goal) == score < goal

\* the loop test of play on the sum of the scores
in_progress_sum(score, opponent_score, goal) == score + opponent_score < goal

\* play, line 92: the loop test
in_progress(score, opponent_score, goal) ==
    score < goal /\ opponent_score < goal

\* swine swap testing one direction only
swine_swap_one_way(score, opponent_score) ==
    IF opponent_score - score = score
    THEN <<opponent_score, score>>
    ELSE <<score, opponent_score>>

\* swine swap written as two assignments in a row: the first score is lost
swine_swap_sequential(score, opponent_score) ==
    IF (opponent_score - score = score) \/ (score - opponent_score = opponent_score)
    THEN <<opponent_score, opponent_score>>
    ELSE <<score, opponent_score>>

\* play, lines 98-99: <<score, opponent_score>> after the swine swap
swine_swap(score, opponent_score) ==
    IF (opponent_score - score = score) \/ (score - opponent_score = opponent_score)
    THEN <<opponent_score, score>>
    ELSE <<score, opponent_score>>

\* play's return without the reversal of line 108
final_scores_turn_order(who, score, opponent_score) == <<score, opponent_score>>

\* play, lines 108-111: <<score, opponent_score>> as returned
final_scores(who, score, opponent_score) ==
    IF who = 1 THEN <<opponent_score, score>> ELSE <<score, opponent_score>>

\* the strategies are not exchanged at the end of a turn
next_strategy_same(strategy0) == strategy0

\* play, line 104: strategy0, strategy1 = strategy1, strategy0.  The local
\* strategy0 is modelled by the number of the player whose strategy it holds.
next_strategy(strategy0) == 1 - strategy0

\* -------------------------------------------------------------- strategies

\* always_roll(n), lines 122-137: the strategy it returns, applied
always_roll(n, score, opponent_score) == n

\* bacon_strategy, lines 237-250
bacon_strategy(score, opponent_score) ==
    IF max(opponent_score \div 10, opponent_score % 10) + 1 >= BACON_MARGIN
    THEN 0
    ELSE BASELINE_NUM_ROLLS

\* swap_strategy with the harmful swap not looked for
swap_strategy_no_harmful(score, opponent_score) ==
    LET swap == score + (1 + max(opponent_score \div 10, opponent_score % 10))
    IN  IF opponent_score - swap = swap THEN 0
        ELSE bacon_strategy(score, opponent_score)

\* swap_strategy, lines 252-275
swap_strategy(score, opponent_score) ==
    LET swap == score + (1 + max(opponent_score \div 10, opponent_score % 10))
    IN  IF opponent_score - swap = swap THEN 0
        ELSE IF swap - opponent_score = opponent_score THEN BASELINE_NUM_ROLLS
        ELSE bacon_strategy(score, opponent_score)

\* The outcome of a test that divides: it raised ZeroDivisionError, or it
\* has a truth value.  Python's "and" evaluates its operands from the left
\* and stops at the first false one.
Truth(b) == [raised |-> FALSE, value |-> b]
Raised == [raised |-> TRUE, value |-> FALSE]

ZeroDivisionError(dice) == [ok |-> FALSE, ret |-> -2, dice |-> dice]

\* final_strategy, line 323
beneficial_swap(roll0, opponent_score) ==
    IF ~(roll0 < opponent_score) THEN Truth(FALSE)
    ELSE IF roll0 = 0 THEN Raised
    ELSE Truth(opponent_score \div roll0 = 2 /\ opponent_score % roll0 = 0)

\* final_strategy, line 328
danger_swap(roll0, opponent_score) ==
    IF ~(roll0 > opponent_score) THEN Truth(FALSE)
    ELSE IF ~(roll0 = 2) THEN Truth(FALSE)
    ELSE IF opponent_score = 0 THEN Raised
    ELSE Truth(roll0 % opponent_score = 0)

\* the test of lines 345 and 352 without its guard opponent_score != 0
harmful_swap_unguarded(roll0, opponent_score) ==
    IF opponent_score = 0 THEN Raised
    ELSE Truth(roll0 \div opponent_score = 2 /\ roll0 % opponent_score = 0)

\* final_strategy, lines 345 and 352
harmful_swap(roll0, opponent_score) ==
    IF ~(opponent_score # 0) THEN Truth(FALSE)
    ELSE Truth(roll0 \div opponent_score = 2 /\ roll0 % opponent_score = 0)

\* final_strategy, lines 293-320
repeated_strategy(score, opponent_score, type_dice, best_num_dice) ==
    LET difference == (opponent_score \div 2) - score
        rest == IF score + best_num_dice >= GOAL_SCORE THEN 2 ELSE best_num_dice
    IN  IF type_dice = four_sided
        THEN IF difference <= 1 THEN 10
             ELSE IF difference <= 2 THEN 1
             ELSE IF difference <= 3 THEN 2
             ELSE IF difference <= 4 THEN 3
             ELSE IF difference <= 5 THEN 3
             ELSE rest
        ELSE IF difference <= 1 THEN 10
             ELSE IF difference < 4 THEN 1
             ELSE IF difference <= 8 THEN 2
             ELSE IF difference <= 12 THEN 3
             ELSE IF difference <= 17 THEN 4
             ELSE rest

\* final_strategy, lines 345-348 and 352-355
unless_harmful(roll0, opponent_score, best_num_dice, dice) ==
    LET h == harmful_swap(roll0, opponent_score)
    IN  IF h.raised THEN ZeroDivisionError(dice)
        ELSE IF h.value THEN Return(best_num_dice, dice)
        ELSE Return(0, dice)

\* final_strategy, lines 322-371: the decision on the locals of lines 287-291
final_decision(score, opponent_score, type_dice, roll0, best_num_dice, dice) ==
    LET b == beneficial_swap(roll0, opponent_score)
        d == danger_swap(roll0, opponent_score)
        bacon == max(opponent_score \div 10, opponent_score % 10)
    IN  IF b.raised THEN ZeroDivisionError(dice)
        ELSE IF b.value THEN Return(0, dice)
        ELSE IF type_dice = four_sided
        THEN IF d.raised THEN ZeroDivisionError(dice)
             ELSE IF d.value THEN Return(best_num_dice, dice)
             ELSE IF opponent_score > score /\ ((opponent_score \div 2) - score) > 0
             THEN Return(repeated_strategy(score, opponent_score, type_dice,
                                           best_num_dice), dice)
             ELSE IF bacon + 1 >= 4 THEN Return(0, dice)
             ELSE Return(best_num_dice, dice)
        ELSE IF opponent_score > 80 /\ score > 91 THEN Return(0, dice)
        ELSE IF score + bacon >= 100
        THEN unless_harmful(roll0, opponent_score, best_num_dice, dice)
        ELSE IF select_dice(roll0, opponent_score) = four_sided
        THEN unless_harmful(roll0, opponent_score, best_num_dice, dice)
        ELSE IF opponent_score > score /\ ((opponent_score \div 2) - score) > 0
        THEN Return(repeated_strategy(score, opponent_score, type_dice,
                                      best_num_dice), dice)
        ELSE IF opponent_score > 50 /\ score - opponent_score > 15
        THEN Return(0, dice)
        ELSE IF score + best_num_dice >= GOAL_SCORE THEN Return(2, dice)
        ELSE Return(best_num_dice, dice)

\* final_strategy answering 0 when the estimate of line 291 reaches the goal
final_strategy_by_estimate(score, opponent_score, four_sided_max, six_sided_max, dice) ==
    LET type_dice == select_dice(score, opponent_score)
        roll0 == score + (1 + max(opponent_score \div 10, opponent_score % 10))
        best_num_dice == IF type_dice = four_sided THEN four_sided_max
                         ELSE six_sided_max
        rolled == roll_dice(5, dice)
        estimate == opponent_score + rolled.ret
    IN  IF ~rolled.ok THEN rolled
        ELSE IF estimate >= GOAL_SCORE THEN Return(0, rolled.dice)
        ELSE final_decision(score, opponent_score, type_dice, roll0,
                            best_num_dice, rolled.dice)

\* final_strategy, lines 280-371.  dice is the six-sided source that
\* roll_dice(5) of line 291 draws from by default; four_sided_max and
\* six_sided_max are the globals of lines 278-279.
final_strategy(score, opponent_score, four_sided_max, six_sided_max, dice) ==
    LET type_dice == select_dice(score, opponent_score)
        roll0 == score + (1 + max(opponent_score \div 10, opponent_score % 10))
        best_num_dice == IF type_dice = four_sided THEN four_sided_max
                         ELSE six_sided_max
        diff == opponent_score - score
        rolled == roll_dice(5, dice)
        estimate == opponent_score + rolled.ret
    IN  IF ~rolled.ok THEN rolled
        ELSE final_decision(score, opponent_score, type_dice, roll0,
                            best_num_dice, rolled.dice)

VARIABLES
    goal,            \* play: the goal parameter
    who,             \* play: the player about to take a turn
    score,           \* play: the local score
    opponent_score,  \* play: the local opponent_score
    num_dice,        \* play: the local num_dice
    type_dice,       \* play: the local type_dice ("none" before the first turn)
    strategy0,       \* play: the player whose strategy the local strategy0 holds
    pc,              \* play: "loop", "done", "error" ("idle" outside Spec)
    result,          \* play: the returned pair (<<>> before the return)
    turns,           \* observer: loop iterations of play so far
    totals,          \* observer: each player's score, indexed by player
    last,            \* observer: what the last turn of play did
    call,            \* TurnSpec: the call of roll_dice / take_turn
    exper,           \* MaxSpec: the call of max_scoring_num_rolls
    strat            \* StratSpec: the calls of a library strategy

vars == <<goal, who, score, opponent_score, num_dice, type_dice, strategy0,
          pc, result, turns, totals, last, call, exper, strat>>

playVars == <<goal, who, score, opponent_score, num_dice, type_dice,
              strategy0, pc, result, turns, totals, last>>

NoTurn == [player |-> -1, own |-> 0, opp |-> 0, num_rolls |-> 0,
           dice |-> "none", calls |-> 0, value |-> 0, before |-> <<0, 0>>]

NoCall == [pc |-> "idle"]
NoExper == [pc |-> "idle"]
NoStrat == [pc |-> "idle"]

\* the variables of play while no game is played
IdlePlay ==
    /\ goal = GOAL_SCORE
    /\ who = 0
    /\ score = 0
    /\ opponent_score = 0
    /\ num_dice = 0
    /\ type_dice = "none"
    /\ strategy0 = 0
    /\ pc = "idle"
    /\ result = <<>>
    /\ turns = 0
    /\ totals = <<0, 0>>
    /\ last = NoTurn

\* the roll counts the strategies of play answer
StrategyRange == 0..MaxRolls

\* The score of each player by the rules of the game, kept apart from play's
\* locals: the mover gains the turn's value, and the two scores are exchanged
\* when one is exactly twice the other.  Players are 0 and 1; the tuple is
\* indexed by player + 1.
ScoresAfter(t, mover, value) ==
    LET gained == [t EXCEPT ![mover + 1] = @ + value]
    IN  IF gained[1] = 2 * gained[2] \/ gained[2] = 2 * gained[1]
        THEN <<gained[2], gained[1]>>
        ELSE gained

\* play, lines 88-90
InitPlay ==
    /\ goal \in 1..MaxGoal
    /\ who = 0
    /\ score = 0
    /\ opponent_score = 0
    /\ num_dice = 0
    /\ type_dice = "none"
    /\ strategy0 = 0
    /\ pc = "loop"
    /\ result = <<>>
    /\ turns = 0
    /\ totals = <<0, 0>>
    /\ last = NoTurn

Init == InitPlay /\ call = NoCall /\ exper = NoExper /\ strat = NoStrat

\* play, lines 92-105: one iteration of the while loop
PlayTurn ==
    /\ pc = "loop"
    /\ in_progress(score, opponent_score, goal)
    /\ \E n \in StrategyRange : \E seq \in TurnOutcomes(n) :
         LET kind == select_dice(score, opponent_score)
             t == take_turn(n, opponent_score, make_dice(kind, seq))
             swapped == swine_swap(score + t.ret, opponent_score)
         IN  /\ num_dice' = n
             /\ type_dice' = kind
             /\ IF t.ok
                THEN /\ score' = swapped[2]
                     /\ opponent_score' = swapped[1]
                     /\ strategy0' = next_strategy(strategy0)
                     /\ who' = other(who)
                     /\ pc' = "loop"
                     /\ turns' = turns + 1
                     /\ totals' = ScoresAfter(totals, strategy0, t.ret)
                     /\ last' = [player |-> strategy0, own |-> score,
                                 opp |-> opponent_score, num_rolls |-> n,
                                 dice |-> kind, calls |-> t.dice.calls,
                                 value |-> t.ret, before |-> totals]
                ELSE /\ pc' = "error"
                     /\ UNCHANGED <<score, opponent_score, strategy0, who,
                                    turns, totals, last>>
    /\ UNCHANGED <<goal, result, call, exper, strat>>

\* play, lines 107-111: the loop is left and the pair returned
PlayReturn ==
    /\ pc = "loop"
    /\ ~in_progress(score, opponent_score, goal)
    /\ LET final == final_scores(who, score, opponent_score)
       IN  /\ score' = final[1]
           /\ opponent_score' = final[2]
           /\ result' = final
    /\ pc' = "done"
    /\ UNCHANGED <<goal, who, num_dice, type_dice, strategy0, turns, totals,
                   last, call, exper, strat>>

Next == PlayTurn \/ PlayReturn

Spec == Init /\ [][Next]_vars

\* play is one sequential call: a step that can be taken is taken
FairSpec == Spec /\ WF_vars(PlayTurn) /\ WF_vars(PlayReturn)

\* ------------------------------------------- one call of a turn function

\* The arguments drawn for a call: every roll count take_turn accepts, and
\* every opponent score below 100 for a turn of no roll; a turn of one or
\* more rolls does not read the opponent's score (line 50), so the lowest
\* and the highest are drawn.
TurnArgs ==
    {<<0, o>> : o \in 0..99} \cup (1..MAX_NUM_ROLLS) \X {0, 99}

InitTurn ==
    /\ IdlePlay
    /\ exper = NoExper
    /\ strat = NoStrat
    /\ \E fn \in {"roll_dice", "take_turn"}, a \in TurnArgs, seq \in DiceCycles :
         /\ fn = "roll_dice" => a[1] >= 1 /\ a[2] = 0
         /\ call = [pc |-> "call", fn |-> fn, num_rolls |-> a[1],
                    opponent_score |-> a[2], ret |-> 0,
                    dice |-> make_dice(test_dice, seq)]

\* the value and the dice source a call leaves behind
Returned(r) ==
    [call EXCEPT !.pc = IF r.ok THEN "done" ELSE "error",
                 !.ret = r.ret, !.dice = r.dice]

\* roll_dice(num_rolls, dice), lines 14-33
RollDiceCall ==
    /\ call.pc = "call"
    /\ call.fn = "roll_dice"
    /\ call' = Returned(roll_dice(call.num_rolls, call.dice))
    /\ UNCHANGED <<playVars, exper, strat>>

\* take_turn(num_rolls, opponent_score, dice), lines 36-50
TakeTurnCall ==
    /\ call.pc = "call"
    /\ call.fn = "take_turn"
    /\ call' = Returned(take_turn(call.num_rolls, call.opponent_score, call.dice))
    /\ UNCHANGED <<playVars, exper, strat>>

NextTurn == RollDiceCall \/ TakeTurnCall

TurnSpec == InitTurn /\ [][NextTurn]_vars

\* ------------------------------------------------------------ experiments

\* An average total / count is kept as the pair <<total, count>> and two
\* averages are compared exactly, by cross-multiplication.
avg_eq(a, b) == a[1] * b[2] = b[1] * a[2]
avg_gt(a, b) == a[1] * b[2] > b[1] * a[2]

\* max(best_avg, curr): the first argument unless the second is greater
avg_max(a, b) == IF avg_gt(b, a) THEN b ELSE a

\* make_averaged(roll_dice), lines 159-164: the while loop of average
RECURSIVE average_loop(_, _, _, _)
average_loop(count, total, num_rolls, dice) ==
    IF count < NumSamples
    THEN LET r == roll_dice(num_rolls, dice)
         IN  average_loop(count + 1, total + r.ret, num_rolls, r.dice)
    ELSE Return(<<total, count>>, dice)

\* roll_average(count, dice), lines 187 and 190
roll_average(num_rolls, dice) == average_loop(0, 0, num_rolls, dice)

\* line 193 with the test "curr > best_avg", made after best_avg was raised
next_best_num_strict(count, curr, best_avg, best_num) ==
    IF avg_gt(curr, best_avg) THEN count ELSE best_num

\* max_scoring_num_rolls, line 193: the best count after this one
next_best_num(count, curr, best_avg, best_num) ==
    IF avg_eq(curr, best_avg) THEN count ELSE best_num

\* max_scoring_num_rolls, line 186
InitMax ==
    /\ IdlePlay
    /\ call = NoCall
    /\ strat = NoStrat
    /\ \E seq \in DiceCycles :
         exper = [pc |-> "loop", count |-> 1, curr |-> <<0, 1>>,
                  best_avg |-> <<0, 1>>, best_num |-> 1,
                  dice |-> make_dice(test_dice, seq),
                  printed |-> <<>>, ret |-> 0]

\* max_scoring_num_rolls, lines 189-194: one iteration of the while loop
MaxLoop ==
    /\ exper.pc = "loop"
    /\ exper.count <= MAX_NUM_ROLLS
    /\ LET r == roll_average(exper.count, exper.dice)
           curr == r.ret
           best_avg == avg_max(exper.best_avg, curr)
       IN  exper' = [exper EXCEPT
                       !.curr = curr,
                       !.dice = r.dice,
                       !.printed = Append(@, <<exper.count, curr>>),
                       !.best_avg = best_avg,
                       !.best_num = next_best_num(exper.count, curr, best_avg, @),
                       !.count = @ + 1]
    /\ UNCHANGED <<playVars, call, strat>>

\* max_scoring_num_rolls, line 195
MaxReturn ==
    /\ exper.pc = "loop"
    /\ ~(exper.count <= MAX_NUM_ROLLS)
    /\ exper' = [exper EXCEPT !.pc = "done", !.ret = exper.best_num]
    /\ UNCHANGED <<playVars, call, strat>>

NextMax == MaxLoop \/ MaxReturn

MaxSpec == InitMax /\ [][NextMax]_vars

\* ------------------------------------------ calls of a library strategy

\* the roll counts max_scoring_num_rolls can have left in a global
BestRolls == 1..MAX_NUM_ROLLS

\* the scores a strategy is called with during a game
Scores == 0..(GOAL_SCORE - 1)

\* The values of the two globals (four_sided_max, six_sided_max).  A call
\* reads one of them, picked by the scores (line 289): the one read takes
\* every value, the other the same value or the opposite end of the range.
BestPairs ==
    {m \in BestRolls \X BestRolls :
        m[1] = m[2] \/ {m[1], m[2]} = {1, MAX_NUM_ROLLS}}

\* The outcomes the six-sided dice answer from one strategy call on: one
\* outcome repeated (roll_dice(5) is then 1, or five times the outcome).
StrategyOutcomes == [1..1 -> 1..MaxPlayOutcome]

\* a strategy, its arguments and the two globals, before its first call
StratCall(name, n, a, m) ==
    [pc |-> "call", name |-> name, n |-> n, score |-> a[1],
     opponent_score |-> a[2], four_sided_max |-> m[1], six_sided_max |-> m[2],
     draws |-> 0, rets |-> <<>>]

\* The strategy and the arguments of the calls.  always_roll(n) reads no
\* score, so it is called on the lowest and the highest scores only; only
\* final_strategy reads the two globals.
InitStrat ==
    /\ IdlePlay
    /\ call = NoCall
    /\ exper = NoExper
    /\ \/ \E n \in 0..MAX_NUM_ROLLS, a \in {0, 99} \X {0, 99} :
            strat = StratCall("always_roll", n, a, <<1, 1>>)
       \/ \E nm \in {"bacon_strategy", "swap_strategy"}, a \in Scores \X Scores :
            strat = StratCall(nm, 0, a, <<1, 1>>)
       \/ \E a \in Scores \X Scores, m \in BestPairs :
            strat = StratCall("final_strategy", 0, a, m)

\* strategy(score, opponent_score) for the strategy and the arguments of s
call_strategy(s, dice) ==
    IF s.name = "always_roll"
    THEN Return(always_roll(s.n, s.score, s.opponent_score), dice)
    ELSE IF s.name = "bacon_strategy"
    THEN Return(bacon_strategy(s.score, s.opponent_score), dice)
    ELSE IF s.name = "swap_strategy"
    THEN Return(swap_strategy(s.score, s.opponent_score), dice)
    ELSE final_strategy(s.score, s.opponent_score, s.four_sided_max,
                        s.six_sided_max, dice)

\* One call of the strategy; its answers are kept in rets and the number of
\* outcomes it drew from the six-sided dice is added to draws.  The strategy
\* is called twice with the same arguments, the dice answering anything.
StrategyCall ==
    /\ strat.pc = "call"
    /\ \E seq \in StrategyOutcomes :
         LET r == call_strategy(strat, make_dice(six_sided, seq))
         IN  strat' = [strat EXCEPT
                         !.rets = Append(@, r.ret),
                         !.draws = @ + r.dice.calls,
                         !.pc = IF ~r.ok THEN "error"
                                ELSE IF Len(strat.rets) = 0 THEN "call"
                                ELSE "done"]
    /\ UNCHANGED <<playVars, call, exper>>

NextStrat == StrategyCall

StratSpec == InitStrat /\ [][NextStrat]_vars

\* ------------------------------------------------- calls off the contract

\* roll counts a caller or a strategy can hand over: the counts of
\* StrategyRange, the first integers off [0, 10], and two non-integers that
\* stand for a number in range
OffRange == {-1, MAX_NUM_ROLLS + 1}

FaultyCounts ==
    {py_int(n) : n \in StrategyRange \cup OffRange} \cup {py_float(2), py_bool(1)}

\* opponent scores around the bound of line 46
ContractScores == {0, GOAL_SCORE - 1, GOAL_SCORE, GOAL_SCORE + 1}

\* the outcomes the dice would answer if the turn came to roll them
ContractOutcomes(n) ==
    IF n \in StrategyRange THEN TurnOutcomes(n)
    ELSE [1..1 -> 1..MaxPlayOutcome]

\* the preconditions of take_turn, lines 43-46, do not hold
Violates(n, o) ==
    \/ n.type # "int"
    \/ n.value < 0
    \/ n.value > 10
    \/ o >= 100

\* the call take_turn(n, o, dice) and what came of it: the value returned
\* and the number of outcomes drawn from the dice
TurnCalled(n, o, t) ==
    [pc |-> IF t.ok THEN "done" ELSE "error", fn |-> "take_turn",
     num_rolls |-> n, opponent_score |-> o, ret |-> t.ret,
     draws |-> t.dice.calls]

\* either one call of take_turn is about to be made, or a game starts
InitContract ==
    /\ exper = NoExper
    /\ strat = NoStrat
    /\ \/ /\ IdlePlay
          /\ \E n \in FaultyCounts, o \in ContractScores,
                seq \in [1..1 -> 1..MaxPlayOutcome] :
               call = [pc |-> "call", fn |-> "take_turn", num_rolls |-> n,
                       opponent_score |-> o, ret |-> 0,
                       dice |-> make_dice(test_dice, seq)]
       \/ /\ InitPlay
          /\ call = NoCall

\* take_turn(num_rolls, opponent_score, dice), lines 36-50
ContractCall ==
    /\ call.pc = "call"
    /\ call' = TurnCalled(call.num_rolls, call.opponent_score,
                          take_turn_object(call.num_rolls, call.opponent_score,
                                           call.dice))
    /\ UNCHANGED <<playVars, exper, strat>>

\* play, lines 92-105, with strategies that may answer any of FaultyCounts;
\* call keeps the call of take_turn made in the iteration
FaultyPlayTurn ==
    /\ pc = "loop"
    /\ in_progress(score, opponent_score, goal)
    /\ \E n \in FaultyCounts : \E seq \in ContractOutcomes(n.value) :
         LET kind == select_dice(score, opponent_score)
             t == take_turn_object(n, opponent_score, make_dice(kind, seq))
             swapped == swine_swap(score + t.ret, opponent_score)
         IN  /\ num_dice' = n.value
             /\ type_dice' = kind
             /\ call' = TurnCalled(n, opponent_score, t)
             /\ IF t.ok
                THEN /\ score' = swapped[2]
                     /\ opponent_score' = swapped[1]
                     /\ strategy0' = next_strategy(strategy0)
                     /\ who' = other(who)
                     /\ pc' = "loop"
                     /\ turns' = turns + 1
                     /\ totals' = ScoresAfter(totals, strategy0, t.ret)
                     /\ last' = [player |-> strategy0, own |-> score,
                                 opp |-> opponent_score, num_rolls |-> n.value,
                                 dice |-> kind, calls |-> t.dice.calls,
                                 value |-> t.ret, before |-> totals]
                ELSE /\ pc' = "error"
                     /\ UNCHANGED <<score, opponent_score, strategy0, who,
                                    turns, totals, last>>
    /\ UNCHANGED <<goal, result, exper, strat>>

NextContract == ContractCall \/ FaultyPlayTurn \/ PlayReturn

ContractSpec == InitContract /\ [][NextContract]_vars

\* ------------------------------------------------ a game to the default goal

\* the roll counts the strategies answer in a game to GOAL_SCORE: no roll,
\* one roll and the most take_turn accepts
GameCounts == {0, 1, MAX_NUM_ROLLS}

\* the dice of a turn answer one outcome, repeated for the whole turn
GameOutcomes == [1..1 -> 1..MaxPlayOutcome]

\* winner, lines 198-204, on the pair play returned
winner(scores) == IF scores[1] > scores[2] THEN 0 ELSE 1

\* play, lines 88-90, with goal left at its default
InitGame ==
    /\ goal = GOAL_SCORE
    /\ who = 0
    /\ score = 0
    /\ opponent_score = 0
    /\ num_dice = 0
    /\ type_dice = "none"
    /\ strategy0 = 0
    /\ pc = "loop"
    /\ result = <<>>
    /\ turns = 0
    /\ totals = <<0, 0>>
    /\ last = NoTurn
    /\ call = NoCall
    /\ exper = NoExper
    /\ strat = NoStrat

\* play, lines 92-105: one iteration of the while loop.  Of the observers
\* only totals is kept.
GameTurn ==
    /\ pc = "loop"
    /\ in_progress(score, opponent_score, goal)
    /\ \E n \in GameCounts : \E seq \in GameOutcomes :
         LET kind == select_dice(score, opponent_score)
             t == take_turn(n, opponent_score, make_dice(kind, seq))
             swapped == swine_swap(score + t.ret, opponent_score)
         IN  /\ num_dice' = n
             /\ type_dice' = kind
             /\ IF t.ok
                THEN /\ score' = swapped[2]
                     /\ opponent_score' = swapped[1]
                     /\ strategy0' = next_strategy(strategy0)
                     /\ who' = other(who)
                     /\ pc' = "loop"
                     /\ totals' = ScoresAfter(totals, strategy0, t.ret)
                ELSE /\ pc' = "error"
                     /\ UNCHANGED <<score, opponent_score, strategy0, who,
                                    totals>>
    /\ UNCHANGED <<goal, result, turns, last, call, exper, strat>>

NextGame == GameTurn \/ PlayReturn

GameSpec == InitGame /\ [][NextGame]_vars

\* ------------------------------------------------------------ properties

\* the scores right after the last turn's value was added, before the swap
\* rule: the mover's and the other player's
LastMover == last.own + last.value
LastOther == last.opp

\* one of the two is exactly twice the other
Doubled(a, o) == o = 2 * a \/ a = 2 * o

\* the i-th outcome a dice source repeating seq answers
Outcome(seq, i) == seq[((i - 1) % Len(seq)) + 1]

RECURSIVE SumOutcomes(_, _)
SumOutcomes(seq, n) ==
    IF n = 0 THEN 0 ELSE Outcome(seq, n) + SumOutcomes(seq, n - 1)

\* C1: the pair play returns is (final score of player 0, final score of
\* player 1) in that order, whichever player took the last turn and whether
\* or not the swap rule fired.
C1_ResultByPlayer == pc = "done" => result = totals

\* a game player 0 ended with a turn on which the swap rule fired
C1_Witness ==
    /\ pc = "done"
    /\ last.player = 0
    /\ Doubled(LastMover, LastOther)
    /\ result = totals
    /\ result[1] < result[2]

\* C2: whenever play returns, at least one of the two returned scores is at
\* least the goal.
C2_GoalReached == pc = "done" => (result[1] >= goal \/ result[2] >= goal)

C2_Witness == pc = "done" /\ result[1] < goal /\ result[2] >= goal

\* C3: every turn value is at least 1, play takes at most 2 * goal - 1 turns,
\* and every game reaches its finished state.
C3_Terminates ==
    /\ [](turns > 0 => last.value >= 1)
    /\ [](turns <= 2 * goal - 1)
    /\ <>(pc = "done")

\* a finished game whose last turn was a free-bacon turn worth the floor of 1
C3_Witness ==
    /\ pc = "done"
    /\ turns >= goal
    /\ last.num_rolls = 0
    /\ last.value = 1

\* C4: after the turn value is added to the mover's score, the two scores
\* are exchanged if and only if one is exactly twice the other, and exactly
\* once; otherwise both are left as they are.  (After line 103 the local
\* opponent_score holds the mover's score and score the other player's.)
C4_SwapOnce ==
    (pc = "loop" /\ turns > 0) =>
        IF Doubled(LastMover, LastOther)
        THEN opponent_score = LastOther /\ score = LastMover
        ELSE opponent_score = LastMover /\ score = LastOther

\* a turn after which the mover had twice the other's score: exchanged
C4_Witness ==
    /\ pc = "loop"
    /\ turns > 0
    /\ LastMover = 2 * LastOther
    /\ opponent_score = LastOther
    /\ score = LastMover
    /\ score # opponent_score

\* C5: play starts with both scores 0 and player 0 to move; turn k (from 0)
\* is decided by the strategy of player k mod 2, called with that player's
\* own score and the other player's score; the mover changes after every
\* turn, whether or not the swap rule fired.
C5_Alternation ==
    /\ (pc = "loop" /\ turns = 0) =>
          (score = 0 /\ opponent_score = 0 /\ who = 0 /\ strategy0 = 0)
    /\ pc = "loop" => (who = turns % 2 /\ strategy0 = who)
    /\ turns > 0 =>
          /\ last.player = (turns - 1) % 2
          /\ last.own = last.before[last.player + 1]
          /\ last.opp = last.before[other(last.player) + 1]

\* the third turn of a game, taken by player 0 right after a turn on which
\* the swap rule fired
C5_Witness ==
    /\ pc = "loop"
    /\ turns = 3
    /\ last.player = 0
    /\ last.before[1] # last.before[2]
    /\ last.own = last.before[1]
    /\ Doubled(last.before[1], last.before[2])

\* C6: every strategy call receives two scores in [0, goal), and once a
\* score is at least goal at the end of a turn there is no further strategy
\* call, dice draw, score change or swap.
C6_EndCheck ==
    /\ [](turns > 0 => (last.own \in 0..(goal - 1) /\ last.opp \in 0..(goal - 1)))
    /\ [][(score >= goal \/ opponent_score >= goal) =>
             /\ turns' = turns
             /\ last' = last
             /\ totals' = totals
             /\ num_dice' = num_dice
             /\ type_dice' = type_dice
             /\ {score', opponent_score'} = {score, opponent_score}]_vars

\* a game returned after a turn that took the mover from below goal to goal
C6_Witness ==
    /\ pc = "done"
    /\ turns >= 2
    /\ last.own < goal
    /\ LastMover >= goal
    /\ ~Doubled(LastMover, LastOther)

\* C7: roll_dice, and take_turn with num_rolls >= 1, call the dice source
\* exactly num_rolls times, also when a 1 comes before the last roll;
\* take_turn with num_rolls = 0 calls it zero times.
C7_ExactCalls == call.pc = "done" => call.dice.calls = call.num_rolls

\* a returned call of three or more rolls whose first outcome was 1
C7_Witness ==
    /\ call.pc = "done"
    /\ call.num_rolls >= 3
    /\ Outcome(call.dice.seq, 1) = 1
    /\ call.dice.calls = call.num_rolls

\* C8: take_turn returns 1 + max(opponent_score // 10, opponent_score % 10),
\* a value in 1..10, when num_rolls = 0 (1 for 0, 5 for 24); when
\* num_rolls >= 1, 1 if any drawn outcome is 1 ([3,1,5] gives 1) and else
\* the sum of the drawn outcomes.
C8_TurnValue ==
    (call.pc = "done" /\ call.fn = "take_turn") =>
        LET n == call.num_rolls
            o == call.opponent_score
            seq == call.dice.seq
        IN  /\ n = 0 =>
                 /\ call.ret = 1 + max(o \div 10, o % 10)
                 /\ call.ret \in 1..10
                 /\ o = 0 => call.ret = 1
                 /\ o = 24 => call.ret = 5
            /\ n >= 1 =>
                 call.ret = IF \E i \in 1..n : Outcome(seq, i) = 1
                            THEN 1
                            ELSE SumOutcomes(seq, n)
            /\ (n = 3 /\ seq = <<3, 1, 5>>) => call.ret = 1

\* take_turn(3, ., dice) on the outcomes 3, 1, 5
C8_Witness ==
    /\ call.pc = "done"
    /\ call.fn = "take_turn"
    /\ call.num_rolls = 3
    /\ call.dice.seq = <<3, 1, 5>>
    /\ call.ret = 1

\* C9: the dice of a turn are chosen from the two scores at the start of
\* the turn: four-sided if and only if their sum is a multiple of 7;
\* select_dice(0, 0) and select_dice(4, 24) are four-sided, select_dice(16,
\* 64) is six-sided, and the first turn of a game uses four-sided dice.
C9_DiceFromStartScores ==
    /\ turns > 0 =>
          /\ last.dice \in {four_sided, six_sided}
          /\ last.dice = four_sided <=> (last.own + last.opp) % 7 = 0
    /\ turns = 1 => last.dice = four_sided
    /\ select_dice(0, 0) = four_sided
    /\ select_dice(4, 24) = four_sided
    /\ select_dice(16, 64) = six_sided

\* a later turn taken with four-sided dice, after which the sum of the
\* scores is no multiple of 7
C9_Witness ==
    /\ turns > 1
    /\ last.dice = four_sided
    /\ last.own + last.opp = 7
    /\ (score + opponent_score) % 7 # 0

\* the average printed for count c (line 191 prints the count and its average)
PrintedAvg(c) == exper.printed[c][2]

\* the counts whose printed average no other count's average exceeds
BestCounts ==
    {c \in 1..MAX_NUM_ROLLS :
        \A d \in 1..MAX_NUM_ROLLS : ~avg_gt(PrintedAvg(d), PrintedAvg(c))}

\* C10: max_scoring_num_rolls returns the roll count with the maximum
\* average, and the lowest of them when several counts reach it.
C10_FirstMaximum ==
    exper.pc = "done" =>
        /\ exper.ret \in BestCounts
        /\ \A c \in BestCounts : exper.ret <= c

\* C11: max_scoring_num_rolls returns a count in 1..10 whose average no
\* other count's average exceeds; it evaluates and prints the averages of
\* the ten counts in increasing order of count; for a dice source that
\* always answers 3 the averages are 3, 6, ..., 30 and the result is 10.
C11_BestOfTen ==
    exper.pc = "done" =>
        /\ exper.ret \in 1..MAX_NUM_ROLLS
        /\ \A d \in 1..MAX_NUM_ROLLS : ~avg_gt(PrintedAvg(d), PrintedAvg(exper.ret))
        /\ Len(exper.printed) = MAX_NUM_ROLLS
        /\ \A c \in 1..MAX_NUM_ROLLS : exper.printed[c][1] = c
        /\ exper.dice.calls =
              NumSamples * ((MAX_NUM_ROLLS * (MAX_NUM_ROLLS + 1)) \div 2)
        /\ exper.dice.seq = <<3>> =>
              /\ \A c \in 1..MAX_NUM_ROLLS : avg_eq(PrintedAvg(c), <<3 * c, 1>>)
              /\ exper.ret = 10

\* the experiment returned on the dice source that always answers 3
C11_Witness ==
    /\ exper.pc = "done"
    /\ exper.dice.seq = <<3>>
    /\ avg_eq(PrintedAvg(10), <<30, 1>>)
    /\ exper.ret = 10

\* the strategy of StratSpec has been called at least once
Called == strat.pc # "idle" /\ Len(strat.rets) >= 1

\* 1 + max(opponent_score // 10, opponent_score % 10): what free bacon gives
FreeBacon(o) == 1 + max(o \div 10, o % 10)

\* C12: for every library strategy, two calls with identical scores return
\* identical roll counts, whatever the dice answered in between.
C12_Purity == strat.pc = "done" => strat.rets[1] = strat.rets[2]

\* final_strategy called twice, ten dice outcomes drawn on the way
C12_Witness ==
    /\ strat.pc = "done"
    /\ strat.name = "final_strategy"
    /\ strat.opponent_score >= 90
    /\ strat.draws = 10
    /\ strat.rets[1] = strat.rets[2]

\* C13: bacon_strategy, swap_strategy and final_strategy return an integer
\* in [0, 10] for all scores in [0, 100) and never fail: no division or
\* remainder by zero, no call left without a value.
C13_Total ==
    (Called /\ strat.name # "always_roll") =>
        /\ strat.pc # "error"
        /\ \A i \in 1..Len(strat.rets) : strat.rets[i] \in 0..10

\* final_strategy(6, 0): the test of line 352 is reached with opponent 0
C13_Witness ==
    /\ Called
    /\ strat.name = "final_strategy"
    /\ strat.score = 6
    /\ strat.opponent_score = 0
    /\ strat.pc # "error"
    /\ strat.rets[1] = 0

\* C14: with r = score + 1 + max(opp // 10, opp % 10), swap_strategy returns
\* 0 when opp = 2 * r, the baseline 5 when r = 2 * opp, and otherwise what
\* the margin strategy returns (0 if free bacon gives 8 or more, else 5); it
\* never returns 0 where free bacon would leave its own score twice the
\* opponent's.
C14_SwapStrategy ==
    (Called /\ strat.name = "swap_strategy") =>
        LET o == strat.opponent_score
            r == strat.score + FreeBacon(o)
        IN  /\ strat.rets[1] = IF o = 2 * r THEN 0
                               ELSE IF r = 2 * o THEN 5
                               ELSE IF FreeBacon(o) >= 8 THEN 0
                               ELSE 5
            /\ r = 2 * o => strat.rets[1] # 0

\* swap_strategy(27, 18): free bacon gives 9, and 36 is twice 18
C14_Witness ==
    /\ Called
    /\ strat.name = "swap_strategy"
    /\ strat.score = 27
    /\ strat.opponent_score = 18
    /\ FreeBacon(strat.opponent_score) >= 8
    /\ strat.rets[1] = 5

\* C16: in each turn of play exactly num_rolls dice outcomes are drawn, all
\* from the dice selected for the turn, and a call of a library strategy
\* draws no dice outcome at all.
C16_DrawsAtTurnOnly ==
    /\ turns > 0 => (last.calls = last.num_rolls /\ last.dice = type_dice)
    /\ Called => strat.draws = 0

\* C17: final_strategy returns 0 whenever free bacon would cause a
\* beneficial swap, and with four-sided dice it does not return 0 where
\* free bacon would cause a harmful swap.
C17_FinalSwapAware ==
    (Called /\ strat.name = "final_strategy") =>
        LET o == strat.opponent_score
            r == strat.score + FreeBacon(o)
        IN  /\ o = 2 * r => strat.rets[1] = 0
            /\ ((strat.score + o) % 7 = 0 /\ r = 2 * o) => strat.rets[1] # 0

\* C20: every turn of play raises the sum of the two scores by exactly the
\* turn's value, which is at least 1; the swap rule, the role exchange and
\* the reversal at the return only permute the two scores, and no score is
\* negative.
C20_SumGrows ==
    [][ /\ turns' = turns + 1 =>
            /\ last'.value >= 1
            /\ score' + opponent_score' = score + opponent_score + last'.value
            /\ {score', opponent_score'} = {score + last'.value, opponent_score}
            /\ score' >= 0 /\ opponent_score' >= 0
        /\ (pc = "loop" /\ pc' = "done") =>
            /\ score' + opponent_score' = score + opponent_score
            /\ {score', opponent_score'} = {score, opponent_score}
      ]_vars

\* a turn after which the mover holds less than before it: the sum grew by
\* the turn's value all the same
C20_Witness ==
    /\ turns > 0
    /\ pc = "loop"
    /\ totals[last.player + 1] < last.before[last.player + 1]
    /\ score + opponent_score = last.own + last.opp + last.value
    /\ last.value >= 1

\* C15: take_turn called with num_rolls below 0, above 10 or not an
\* integer, or with opponent_score of 100 or more, fails before any dice
\* outcome is drawn and returns no value, and it fails on nothing else; in
\* play such a roll count ends the game at that turn: no step follows, no
\* pair is returned and the turn changes no score.
C15_FailFast ==
    [][ /\ pc # "error"
        /\ call.pc # "error"
        /\ call' # call =>
            /\ call'.pc = "error" <=>
                   Violates(call'.num_rolls, call'.opponent_score)
            /\ call'.pc = "error" =>
                   (call'.draws = 0 /\ call'.ret = -1)
            /\ (pc = "loop" /\ call'.pc = "error") => pc' = "error"
        /\ pc' = "error" =>
            /\ call'.pc = "error"
            /\ result' = <<>>
            /\ UNCHANGED <<score, opponent_score, totals, turns, last>>
      ]_vars

\* a game stopped after a first turn by a strategy that answered 11
C15_Witness ==
    /\ pc = "error"
    /\ turns >= 1
    /\ call.pc = "error"
    /\ call.num_rolls = py_int(MAX_NUM_ROLLS + 1)
    /\ call.draws = 0
    /\ score + opponent_score = last.own + last.opp + last.value
    /\ result = <<>>

\* C18: when play returns from a game to the default goal, exactly one of
\* the two final scores has reached the goal, so the two are never equal,
\* and winner answers 0 exactly when player 0 holds the score that reached
\* the goal.
C18_OneWinner ==
    pc = "done" =>
        /\ (result[1] >= goal) # (result[2] >= goal)
        /\ result[1] # result[2]
        /\ winner(result) = 0 <=> totals[1] >= goal

\* the game is over and the player who did not take the last turn holds
\* the score that reached the goal (who is the player next to move)
C18_Witness ==
    /\ pc = "done"
    /\ goal = GOAL_SCORE
    /\ totals[who + 1] >= goal
    /\ winner(result) = who

\* C19: in a game to the default goal no assert statement of take_turn or
\* roll_dice fails: whenever the loop goes on, the opponent score handed to
\* take_turn is below 100 and take_turn succeeds on every roll count, and
\* roll_dice is reached with one roll or more only.
C19_NoAssertionFails ==
    /\ pc # "error"
    /\ (pc = "loop" /\ in_progress(score, opponent_score, goal)) =>
        /\ opponent_score < 100
        /\ \A n \in GameCounts :
             LET dice == make_dice(select_dice(score, opponent_score), <<1>>)
             IN  /\ take_turn(n, opponent_score, dice).ok
                 /\ n # 0 => roll_dice(n, dice).ok

\* The loop goes on right after a swap near the goal: one score is twice
\* the other, which the swap rule leaves only by exchanging them.
C19_Witness ==
    /\ pc = "loop"
    /\ goal = GOAL_SCORE
    /\ in_progress(score, opponent_score, goal)
    /\ score = 2 * opponent_score
    /\ score >= 90

====
